---- MODULE Spec2Model ----
(***************************************************************************)
(* State-machine model of ContentAnalyzer (src/src/content_analyzer.py).   *)
(*                                                                         *)
(* A text is a sequence of characters, each character a one-character      *)
(* string (the non-ASCII letter U+00E9 is written "U+00E9").  An instance  *)
(* holds text, sentences and words; every public method is an action that  *)
(* leaves its return value in `result`.                                     *)
(*                                                                         *)
(* earlier is a history variable: the caller keeps in it the value of one  *)
(* analyze_all (with its text), and it tells whether the instance has been *)
(* replaced since and whether other analyses ran since.                    *)
(*                                                                         *)
(* A run of main() (src/scripts/run_analysis.py) has its position in pc,   *)
(* its command line in argv, its local variables in content and tags, and  *)
(* the steps it took and the messages it printed in trace.  Where the      *)
(* class is used by a caller directly, pc is "caller" and the variables of *)
(* main() stay as they are.                                                *)
(*                                                                         *)
(* Numbers: Python floats are modelled as exact rationals [num, den]; the  *)
(* values the code rounds with round(x, 2) are reported in hundredths.     *)
(* Where the exact value lies halfway between two hundredths, the rounding *)
(* error of the float computation decides the result of round(x, 2):       *)
(* float_up holds the fields that this instance's floats round upwards.    *)
(***************************************************************************)
EXTENDS Integers, Sequences, FiniteSets, TLC

VARIABLES text, sentences, words, result, float_up, earlier,
          pc, argv, trace, content, tags

\* the variables of a run of main()
main_vars == <<pc, argv, trace, content, tags>>

vars == <<text, sentences, words, result, float_up, earlier, main_vars>>

-----------------------------------------------------------------------------
(* Bounds of the exploration *)

MaxLen == 4        \* every text of at most MaxLen characters over Alphabet
MaxTopN == 3       \* caller-supplied top_n ranges over 0..MaxTopN
MaxLenTwice == 2   \* the texts up to this length are analysed repeatedly
MaxLenPage == 2    \* the page bodies up to this length are fetched
MaxTags == 2       \* category lists of at most MaxTags elements of the pool

-----------------------------------------------------------------------------
(* Characters *)

AsciiLower == {"a","b","c","d","e","f","g","h","i","j","k","l","m",
               "n","o","p","q","r","s","t","u","v","w","x","y","z"}
AsciiUpper == {"A","B","C","D","E","F","G","H","I","J","K","L","M",
               "N","O","P","Q","R","S","T","U","V","W","X","Y","Z"}
AsciiLetters == AsciiLower \cup AsciiUpper
Digits == {"0","1","2","3","4","5","6","7","8","9"}
NonAsciiLetters == {"U+00E9"}
Whitespace == {" ", "\t", "\n", "\r"}
Terminators == {".", "!", "?"}

\* the characters the regular expression class \w matches
WordChars == AsciiLetters \cup Digits \cup {"_"} \cup NonAsciiLetters

LowerOf == [A |-> "a", B |-> "b", C |-> "c", D |-> "d", E |-> "e", F |-> "f",
            G |-> "g", H |-> "h", I |-> "i", J |-> "j", K |-> "k", L |-> "l",
            M |-> "m", N |-> "n", O |-> "o", P |-> "p", Q |-> "q", R |-> "r",
            S |-> "s", T |-> "t", U |-> "u", V |-> "v", W |-> "w", X |-> "x",
            Y |-> "y", Z |-> "z"]

\* str.lower()
lower(s) == [i \in 1..Len(s) |-> IF s[i] \in AsciiUpper THEN LowerOf[s[i]] ELSE s[i]]

-----------------------------------------------------------------------------
(* Tokenization *)

SetMax(S) == CHOOSE x \in S : \A y \in S : y <= x
SetMin(S) == CHOOSE x \in S : \A y \in S : x <= y

\* the positions of a set, in increasing order
Ascending(S) ==
    [k \in 1..Cardinality(S) |-> CHOOSE x \in S : Cardinality({y \in S : y < x}) = k - 1]

\* the matches of [.!?]+ : first and last positions of the maximal runs
RunStarts(s) ==
    {i \in 1..Len(s) : s[i] \in Terminators /\ (i = 1 \/ s[i-1] \notin Terminators)}
RunEnds(s) ==
    {i \in 1..Len(s) : s[i] \in Terminators /\ (i = Len(s) \/ s[i+1] \notin Terminators)}

\* re.split(r'[.!?]+', s): the fragments before, between and after the runs
re_split(s) ==
    LET starts == Ascending(RunStarts(s))
        ends == Ascending(RunEnds(s))
        n == Len(starts)
    IN  [k \in 1..(n + 1) |->
            SubSeq(s, IF k = 1 THEN 1 ELSE ends[k-1] + 1,
                      IF k = n + 1 THEN Len(s) ELSE starts[k] - 1)]

\* str.strip()
strip(s) ==
    LET kept == {i \in 1..Len(s) : s[i] \notin Whitespace}
    IN  IF kept = {} THEN <<>> ELSE SubSeq(s, SetMin(kept), SetMax(kept))

\* faulty variant: the fragments are kept as they were split
StripNonEmpty_unstripped(frags) ==
    SelectSeq(frags, LAMBDA f : strip(f) # <<>>)

\* [s.strip() for s in sentences if s.strip()]
StripNonEmpty(frags) ==
    SelectSeq([k \in 1..Len(frags) |-> strip(frags[k])], LAMBDA f : f # <<>>)

\* faulty variant: only the fragments that end with a terminator are kept
_split_sentences_terminated(s) ==
    StripNonEmpty(SubSeq(re_split(s), 1, Len(re_split(s)) - 1))

_split_sentences(s) == StripNonEmpty(re_split(s))

\* \b at the position between s[p] and s[p+1] (p in 0..Len(s))
IsW(s, p) == p >= 1 /\ p <= Len(s) /\ s[p] \in WordChars
WordBoundary(s, p) == IsW(s, p) # IsW(s, p + 1)

\* greedy [a-zA-Z]+ from position i: the last position of the letter run
LetterRunEnd(s, i) ==
    SetMin({j \in i..Len(s) : j = Len(s) \/ s[j+1] \notin AsciiLetters})

\* the positions where a match starting at i may end: [a-zA-Z]+ gives back
\* letters until \b holds
MatchEnds(s, i) == {k \in i..LetterRunEnd(s, i) : WordBoundary(s, k)}

\* the positions where \b[a-zA-Z]+\b matches
MatchStarts(s) ==
    {i \in 1..Len(s) : /\ WordBoundary(s, i - 1)
                       /\ s[i] \in AsciiLetters
                       /\ MatchEnds(s, i) # {}}

\* re.findall(r'\b[a-zA-Z]+\b', s): the matches from left to right
re_findall(s) ==
    LET starts == Ascending(MatchStarts(s))
    IN  [k \in 1..Len(starts) |->
            SubSeq(s, starts[k], SetMax(MatchEnds(s, starts[k])))]

_extract_words(s) == re_findall(lower(s))

-----------------------------------------------------------------------------
(* Return values *)

Return(op, v) == [op |-> op, raised |-> FALSE, value |-> v]
Raise(op, e) == [op |-> op, raised |-> TRUE, value |-> e]

-----------------------------------------------------------------------------
(* Word statistics *)

Range(s) == {s[k] : k \in 1..Len(s)}

\* faulty variant: every whitespace character is removed
RemoveSpaces_all_whitespace(s) == SelectSeq(s, LAMBDA c : c \notin Whitespace)

\* s.replace(' ', '')
RemoveSpaces(s) == SelectSeq(s, LAMBDA c : c # " ")

word_count(t, ss, ws) ==
    [total_words |-> Len(ws),
     unique_words |-> Cardinality(Range(ws)),
     sentences |-> Len(ss),
     characters |-> Len(t),
     characters_no_spaces |-> Len(RemoveSpaces(t))]

-----------------------------------------------------------------------------
(* Syllable estimate *)

Vowels == {"a", "e", "i", "o", "u", "y"}

\* faulty variant: every vowel counts, also one preceded by a vowel
RECURSIVE SyllableScan_every_vowel(_, _, _, _)
SyllableScan_every_vowel(w, i, syllable_count, prev_was_vowel) ==
    IF i > Len(w) THEN syllable_count
    ELSE SyllableScan_every_vowel(w, i + 1,
                                  IF w[i] \in Vowels
                                  THEN syllable_count + 1 ELSE syllable_count,
                                  w[i] \in Vowels)

\* the for loop: count the vowels not preceded by a vowel
RECURSIVE SyllableScan(_, _, _, _)
SyllableScan(w, i, syllable_count, prev_was_vowel) ==
    IF i > Len(w) THEN syllable_count
    ELSE LET is_vowel == w[i] \in Vowels
         IN  SyllableScan(w, i + 1,
                          IF is_vowel /\ ~prev_was_vowel
                          THEN syllable_count + 1 ELSE syllable_count,
                          is_vowel)

\* faulty variant: no silent 'e' adjustment
SilentE_never(w, syllable_count) == syllable_count

\* the silent 'e' adjustment
SilentE(w, syllable_count) ==
    IF w # <<>> /\ w[Len(w)] = "e" /\ syllable_count > 1
    THEN syllable_count - 1
    ELSE syllable_count

Max2(a, b) == IF a >= b THEN a ELSE b
Min2(a, b) == IF a <= b THEN a ELSE b

\* faulty variant: no floor at 1
_count_syllables_no_floor(word) ==
    SilentE(lower(word), SyllableScan(lower(word), 1, 0, FALSE))

_count_syllables(word) ==
    LET w == lower(word)
    IN  Max2(1, SilentE(w, SyllableScan(w, 1, 0, FALSE)))

\* sum(self._count_syllables(word) for word in ws[lo..hi])
RECURSIVE SumSyllables(_, _, _)
SumSyllables(ws, lo, hi) ==
    IF lo > hi THEN 0
    ELSE IF lo = hi THEN _count_syllables(ws[lo])
    ELSE LET mid == (lo + hi) \div 2
         IN  SumSyllables(ws, lo, mid) + SumSyllables(ws, mid + 1, hi)

-----------------------------------------------------------------------------
(* Readability.  A float is the rational num/den with den > 0.  The        *)
(* constants 206.835, 1.015 and 84.6 are FleschBase, FleschSentenceWeight  *)
(* and FleschSyllableWeight in thousandths (FleschScale).                  *)

FleschScale == 1000
FleschBase == 206835
FleschSentenceWeight == 1015
FleschSyllableWeight == 84600

\* 206.835 - 1.015 * (nW / nS) - 84.6 * (syl / nW)
FleschFormula(nW, nS, syl) ==
    [num |-> FleschBase * nS * nW - FleschSentenceWeight * nW * nW
             - FleschSyllableWeight * syl * nS,
     den |-> FleschScale * nS * nW]

\* faulty variant: min(100, x) without the lower clamp
Clamp_upper_only(x) == [num |-> Min2(100 * x.den, x.num), den |-> x.den]

\* max(0, min(100, x))
Clamp(x) == [num |-> Max2(0, Min2(100 * x.den, x.num)), den |-> x.den]

\* faulty variant: exclusive lower bounds
GradeLevel_exclusive(x) ==
    IF x.num > 90 * x.den THEN "5th grade"
    ELSE IF x.num > 80 * x.den THEN "6th grade"
    ELSE IF x.num > 70 * x.den THEN "7th grade"
    ELSE IF x.num > 60 * x.den THEN "8th-9th grade"
    ELSE IF x.num > 50 * x.den THEN "10th-12th grade"
    ELSE IF x.num > 30 * x.den THEN "College level"
    ELSE "Graduate level"

\* the if/elif chain on the clamped score
GradeLevel(x) ==
    IF x.num >= 90 * x.den THEN "5th grade"
    ELSE IF x.num >= 80 * x.den THEN "6th grade"
    ELSE IF x.num >= 70 * x.den THEN "7th grade"
    ELSE IF x.num >= 60 * x.den THEN "8th-9th grade"
    ELSE IF x.num >= 50 * x.den THEN "10th-12th grade"
    ELSE IF x.num >= 30 * x.den THEN "College level"
    ELSE "Graduate level"

\* x lies halfway between two hundredths
IsTie(x) == 2 * (((x.num % x.den) * 100) % x.den) = x.den

\* a quotient halfway between two hundredths that a double holds exactly:
\* 200 * x is an odd multiple of 25
ExactTie(x) == IsTie(x) /\ ((x.num * 200) \div x.den) % 25 = 0

\* round(x, 2) of a non-negative x, in hundredths: the nearest hundredth;
\* halfway, a double that holds x exactly goes to the even hundredth, and
\* any other double goes where its rounding error puts it
Round2(x, exact, up) ==
    LET whole == x.num \div x.den
        rest == (x.num % x.den) * 100
        base == whole * 100 + (rest \div x.den)
        twice == 2 * (rest % x.den)
    IN  IF twice > x.den THEN base + 1
        ELSE IF twice < x.den THEN base
        ELSE IF exact THEN (IF base % 2 = 0 THEN base ELSE base + 1)
        ELSE IF up THEN base + 1 ELSE base

\* faulty variant: the label is chosen from the rounded score
ReadabilityBody_label_from_rounded(ss, ws, ups) ==
    IF Len(ss) = 0 \/ Len(ws) = 0
    THEN Raise("readability_score", "ZeroDivisionError")
    ELSE LET avg_sentence_length == [num |-> Len(ws), den |-> Len(ss)]
             syllable_count == SumSyllables(ws, 1, Len(ws))
             avg_syllables_per_word == [num |-> syllable_count, den |-> Len(ws)]
             flesch_score == Clamp(FleschFormula(Len(ws), Len(ss), syllable_count))
             rounded == Round2(flesch_score, FALSE, "flesch_reading_ease" \in ups)
         IN  Return("readability_score",
                    [flesch_reading_ease |-> rounded,
                     grade_level |-> GradeLevel([num |-> rounded, den |-> 100]),
                     avg_sentence_length |->
                         Round2(avg_sentence_length, ExactTie(avg_sentence_length),
                                "avg_sentence_length" \in ups),
                     avg_syllables_per_word |->
                         Round2(avg_syllables_per_word, ExactTie(avg_syllables_per_word),
                                "avg_syllables_per_word" \in ups)])

\* lines 43-72: the scores of a text with sentences and words
ReadabilityBody(ss, ws, ups) ==
    IF Len(ss) = 0 \/ Len(ws) = 0
    THEN Raise("readability_score", "ZeroDivisionError")
    ELSE LET avg_sentence_length == [num |-> Len(ws), den |-> Len(ss)]
             syllable_count == SumSyllables(ws, 1, Len(ws))
             avg_syllables_per_word == [num |-> syllable_count, den |-> Len(ws)]
             flesch_score == Clamp(FleschFormula(Len(ws), Len(ss), syllable_count))
         IN  Return("readability_score",
                    [flesch_reading_ease |->
                         Round2(flesch_score, FALSE, "flesch_reading_ease" \in ups),
                     grade_level |-> GradeLevel(flesch_score),
                     avg_sentence_length |->
                         Round2(avg_sentence_length, ExactTie(avg_sentence_length),
                                "avg_sentence_length" \in ups),
                     avg_syllables_per_word |->
                         Round2(avg_syllables_per_word, ExactTie(avg_syllables_per_word),
                                "avg_syllables_per_word" \in ups)])

\* the fields whose rounding the float error decides
FloatTies(ss, ws) ==
    IF Len(ss) = 0 \/ Len(ws) = 0 THEN {}
    ELSE LET a == [num |-> Len(ws), den |-> Len(ss)]
             syl == SumSyllables(ws, 1, Len(ws))
             b == [num |-> syl, den |-> Len(ws)]
             f == Clamp(FleschFormula(Len(ws), Len(ss), syl))
         IN  (IF IsTie(f) THEN {"flesch_reading_ease"} ELSE {})
             \cup (IF IsTie(a) /\ ~ExactTie(a) THEN {"avg_sentence_length"} ELSE {})
             \cup (IF IsTie(b) /\ ~ExactTie(b) THEN {"avg_syllables_per_word"} ELSE {})

Degenerate == [flesch_reading_ease |-> 0, grade_level |-> "N/A"]

\* faulty variant: no guard before the divisions
readability_score_unguarded(ss, ws, ups) == ReadabilityBody(ss, ws, ups)

\* faulty variant: the guard needs both lists to be empty
readability_score_both_empty(ss, ws, ups) ==
    IF ss = <<>> /\ ws = <<>>
    THEN Return("readability_score", Degenerate)
    ELSE ReadabilityBody(ss, ws, ups)

readability_score(ss, ws, ups) ==
    IF ss = <<>> \/ ws = <<>>
    THEN Return("readability_score", Degenerate)
    ELSE ReadabilityBody(ss, ws, ups)

-----------------------------------------------------------------------------
(* Keywords *)

stop_words == {
    <<"t","h","e">>, <<"a">>, <<"a","n">>, <<"a","n","d">>, <<"o","r">>,
    <<"b","u","t">>, <<"i","n">>, <<"o","n">>, <<"a","t">>, <<"t","o">>,
    <<"f","o","r">>, <<"o","f">>, <<"w","i","t","h">>, <<"b","y">>,
    <<"i","s">>, <<"a","r","e">>, <<"w","a","s">>, <<"w","e","r","e">>,
    <<"b","e">>, <<"b","e","e","n">>, <<"b","e","i","n","g">>,
    <<"h","a","v","e">>, <<"h","a","s">>, <<"h","a","d">>, <<"d","o">>,
    <<"d","o","e","s">>, <<"d","i","d">>, <<"w","i","l","l">>,
    <<"w","o","u","l","d">>, <<"c","o","u","l","d">>,
    <<"s","h","o","u","l","d">>, <<"m","a","y">>, <<"m","i","g","h","t">>,
    <<"m","u","s","t">>, <<"c","a","n">>, <<"t","h","i","s">>,
    <<"t","h","a","t">>, <<"t","h","e","s","e">>, <<"t","h","o","s","e">>,
    <<"i">>, <<"y","o","u">>, <<"h","e">>, <<"s","h","e">>, <<"i","t">>,
    <<"w","e">>, <<"t","h","e","y">>, <<"m","e">>, <<"h","i","m">>,
    <<"h","e","r">>, <<"u","s">>, <<"t","h","e","m">>, <<"m","y">>,
    <<"y","o","u","r">>, <<"h","i","s">>, <<"h","e","r">>, <<"i","t","s">>,
    <<"o","u","r">>, <<"t","h","e","i","r">>}

\* faulty variant: stop words are not filtered
Retained_length_only(word) == Len(word) > 2

\* the condition of the list comprehension
Retained(word) == word \notin stop_words /\ Len(word) > 2

filtered_words(ws) == SelectSeq(ws, Retained)

\* Counter: <<word, count>> entries in order of first insertion
CounterAdd(c, w) ==
    IF \E k \in 1..Len(c) : c[k][1] = w
    THEN [k \in 1..Len(c) |-> IF c[k][1] = w THEN <<w, c[k][2] + 1>> ELSE c[k]]
    ELSE Append(c, <<w, 1>>)

\* (the test on c has the counter computed word by word, not all at the end)
RECURSIVE CounterOf(_, _)
CounterOf(ws, c) ==
    IF ws = <<>> \/ Len(c) < 0 THEN c
    ELSE CounterOf(Tail(ws), CounterAdd(c, Head(ws)))

Counter(ws) == CounterOf(ws, <<>>)

\* faulty variant: an entry goes before the entries of equal count
InsertByCount_unstable(sorted, e) ==
    LET before == Cardinality({k \in 1..Len(sorted) : sorted[k][2] > e[2]})
    IN  SubSeq(sorted, 1, before) \o <<e>> \o SubSeq(sorted, before + 1, Len(sorted))

\* sorted(items, key=count, reverse=True): stable, so an entry goes after
\* every entry already placed whose count is at least its own
InsertByCount(sorted, e) ==
    LET before == Cardinality({k \in 1..Len(sorted) : sorted[k][2] >= e[2]})
    IN  SubSeq(sorted, 1, before) \o <<e>> \o SubSeq(sorted, before + 1, Len(sorted))

RECURSIVE SortByCount(_, _)
SortByCount(items, sorted) ==
    IF items = <<>> \/ Len(sorted) < 0 THEN sorted
    ELSE SortByCount(Tail(items), InsertByCount(sorted, Head(items)))

\* faulty variant: top_n is ignored
Take_all(s, n) == s

\* the first n entries (none when n <= 0)
Take(s, n) == IF n <= 0 THEN <<>> ELSE SubSeq(s, 1, Min2(n, Len(s)))

\* Counter.most_common(n)
most_common(c, n) == Take(SortByCount(c, <<>>), n)

keyword_extraction(ws, top_n) == most_common(Counter(filtered_words(ws)), top_n)

DefaultTopN == 10

-----------------------------------------------------------------------------
(* Complete analysis *)

analyze_all(t, ss, ws, ups) ==
    LET r == readability_score(ss, ws, ups)
    IN  IF r.raised
        THEN Raise("analyze_all", r.value)
        ELSE Return("analyze_all",
                    [word_count |-> word_count(t, ss, ws),
                     readability |-> r.value,
                     keywords |-> keyword_extraction(ws, DefaultTopN)])

-----------------------------------------------------------------------------
(* Input texts: every short text over Alphabet, and a corpus of longer ones *)

Alphabet == {"d", "i", "e", "D", " ", ".", "1"}

ShortTexts == UNION {[1..n -> Alphabet] : n \in 0..MaxLen}

RECURSIVE Rep(_, _)
Rep(s, n) == IF n <= 0 THEN <<>> ELSE s \o Rep(s, n - 1)

Id == <<"i","d">>                     \* one syllable
Idi == <<"i","d","i">>                \* two syllables

Apple == <<"a","p","p","l","e">>
Create == <<"c","r","e","a","t","e">>
The == <<"t","h","e">>
Rhythm == <<"r","h","y","t","h","m">>
Banana == <<"b","a","n","a","n","a">>
CatDogBird == <<"c","a","t"," ","c","a","t"," ","d","o","g"," ","d","o","g",
                " ","d","o","g"," ","b","i","r","d">>
TheCat == <<"T","h","e"," ","c","a","t","."," ","T","h","e"," ","C","A",
            "T","!"," ","U","p"," ","u","p"," ","u","p"," ","t","h","e",
            " ","t","h","e"," ","d","o","g","?">>

\* thirteen words, twelve of them distinct
Animals == <<"c","a","t"," ","d","o","g"," ","b","i","r","d"," ","c","o",
             "w"," ","h","e","n"," ","p","i","g"," ","f","o","x"," ","o",
             "w","l"," ","b","e","e"," ","a","n","t"," ","r","a","t"," ",
             "e","l","k"," ","d","o","g">>

\* 72 words, 18 sentences, 113 syllables: the formula gives exactly 70
Score70 == Rep(Idi \o <<" ">> \o Idi \o <<" ">> \o Idi \o <<" ">> \o Id \o <<".">>, 5)
           \o Rep(Idi \o <<" ">> \o Idi \o <<" ">> \o Id \o <<" ">> \o Id \o <<".">>, 13)

\* 47 words, 29 sentences, 64 syllables: the formula gives exactly 89.99
Score8999 == Rep(Idi \o <<" ">> \o Id \o <<".">>, 17)
             \o Id \o <<" ">> \o Id \o <<".">>
             \o Rep(Id \o <<".">>, 11)

\* spaces, a tab and a newline
Tabbed == <<"a"," ","b","\t","c","\n","d"," "," ","e">>

\* a letter run that adjoins a non-ASCII letter
Cafe == <<"c","a","f","U+00E9"," ","a","u">>

\* 45 words, 2 sentences, 50 syllables: the formula gives 89.9975, which is
\* reported as 90.0
Score90Rounded == Rep(Id \o <<" ">>, 40) \o <<".", " ">> \o Rep(Idi \o <<" ">>, 5)

\* one sentence of nOne one-syllable and nTwo two-syllable words
Mixed(nOne, nTwo) == Rep(Id \o <<" ">>, nOne) \o Rep(Idi \o <<" ">>, nTwo)

Corpus == {Apple, Create, The, Rhythm, Banana, CatDogBird, TheCat, Animals,
           Score70, Score8999, Score90Rounded, Tabbed, Cafe,
           Mixed(3, 2), Mixed(1, 2), Mixed(1, 3), Mixed(2, 5), Mixed(1, 6),
           Mixed(0, 25)}

Texts == ShortTexts \cup Corpus

-----------------------------------------------------------------------------
(* Collaborators of main(): command line, page fetch *)

\* a command-line argument: its text and what urlparse makes of it
AutoTagFlag == [string |-> "--auto-tag", scheme |-> "", netloc |-> ""]
UrlArg == [string |-> "https://example.com/post", scheme |-> "https",
           netloc |-> "example.com"]
PathArg == [string |-> "notes.txt", scheme |-> "", netloc |-> ""]
NoHostArg == [string |-> "mailto:shop", scheme |-> "mailto", netloc |-> ""]
Arguments == {UrlArg, PathArg, NoHostArg}

\* all([result.scheme, result.netloc])
is_url(a) == a.scheme # "" /\ a.netloc # ""

\* re.sub(r'\s+', ' ', s): every run of whitespace becomes one space
CollapseSpace(s) ==
    LET kept == Ascending({i \in 1..Len(s) :
                    s[i] \notin Whitespace \/ i = 1 \/ s[i-1] \notin Whitespace})
    IN  [k \in 1..Len(kept) |->
            IF s[kept[k]] \in Whitespace THEN " " ELSE s[kept[k]]]

\* the content types in which 'text/html' occurs once they are lowercased
HtmlTypes == {"text/html", "text/html; charset=utf-8", "Text/HTML"}
ContentTypes == HtmlTypes \cup {"application/json", ""}

\* what requests.get() does: it raises, or it answers with a status, a
\* content type and a body (the body is the text BeautifulSoup extracts)
Exchange(e, st, ct, b) == [exception |-> e, status |-> st, content_type |-> ct, body |-> b]

\* faulty variant: a page without text is returned as the empty string
fetch_url_content_empty_ok(r) ==
    IF r.exception = "Timeout"
    THEN Raise("fetch_url_content", "Request timed out")
    ELSE IF r.exception = "ConnectionError"
    THEN Raise("fetch_url_content", "Failed to connect to the website")
    ELSE IF r.exception = "RequestException"
    THEN Raise("fetch_url_content", "Request failed")
    ELSE IF r.status >= 400 /\ r.status < 600
    THEN Raise("fetch_url_content", "HTTP error occurred")
    ELSE IF r.content_type \notin HtmlTypes
    THEN Raise("fetch_url_content", "Error processing webpage")
    ELSE Return("fetch_url_content", strip(CollapseSpace(r.body)))

\* fetch_url_content: the one request, the checks, the text extraction; the
\* except clauses turn every exception into one Exception
fetch_url_content(r) ==
    IF r.exception = "Timeout"
    THEN Raise("fetch_url_content", "Request timed out")
    ELSE IF r.exception = "ConnectionError"
    THEN Raise("fetch_url_content", "Failed to connect to the website")
    ELSE IF r.exception = "RequestException"
    THEN Raise("fetch_url_content", "Request failed")
    ELSE IF r.status >= 400 /\ r.status < 600
    THEN Raise("fetch_url_content", "HTTP error occurred")
    ELSE IF r.content_type \notin HtmlTypes
    THEN Raise("fetch_url_content", "Error processing webpage")
    ELSE LET extracted == strip(CollapseSpace(r.body))
         IN  IF extracted = <<>>
             THEN Raise("fetch_url_content", "Error processing webpage")
             ELSE Return("fetch_url_content", extracted)

\* the page bodies of the exploration
PageBodies == {s \in Texts : Len(s) <= MaxLenPage}
              \cup {Apple, TheCat, Tabbed, <<" ", "\n", " ">>, <<"\n", "i", "d", "\n", "\n">>}

\* the exchanges of the exploration: the three exceptions of the request,
\* error statuses, other content types, and pages
Exchanges ==
    {Exchange(e, 200, "text/html", <<>>) :
        e \in {"Timeout", "ConnectionError", "RequestException"}}
    \cup {Exchange("none", st, "text/html", Apple) : st \in {404, 500}}
    \cup {Exchange("none", 200, ct, Apple) : ct \in ContentTypes}
    \cup {Exchange("none", 200, "text/html; charset=utf-8", b) : b \in PageBodies}

-----------------------------------------------------------------------------
(* Collaborators of main(): the tagger *)

confidence_threshold == 50     \* 0.5, confidences are in hundredths
max_tags_per_category == 5

\* an element of a category list of the model's JSON answer: a dict with
\* some of the keys 'tag' and 'confidence', or something that is no dict;
\* the value of 'confidence' is a number, a boolean, a string or null
Tag(name, c) == [kind |-> "dict", keys |-> {"tag", "confidence"}, tag |-> name,
                 conf_type |-> "number", confidence |-> c]
TagWithout(name) == [kind |-> "dict", keys |-> {"tag"}, tag |-> name,
                     conf_type |-> "absent", confidence |-> 0]
Nameless(c) == [kind |-> "dict", keys |-> {"confidence"}, tag |-> "",
                conf_type |-> "number", confidence |-> c]
TagOdd(name, t) == [kind |-> "dict", keys |-> {"tag", "confidence"}, tag |-> name,
                    conf_type |-> t, confidence |-> IF t = "bool" THEN 100 ELSE 0]
Bare(name) == [kind |-> "str", keys |-> {}, tag |-> name,
               conf_type |-> "absent", confidence |-> 0]

\* tag.get('confidence', 0) >= self.confidence_threshold raises TypeError
\* where the value is a string or null
Comparable(item) ==
    item.kind = "dict" => item.conf_type \in {"absent", "number", "bool"}

\* isinstance(tag, dict) and tag.get('confidence', 0) >= threshold
TagKept(item) ==
    /\ item.kind = "dict"
    /\ (IF "confidence" \in item.keys THEN item.confidence ELSE 0)
           >= confidence_threshold

\* a value of the JSON answer: a list of elements, or something else
ListOf(items) == [type |-> "list", items |-> items]
NotAList(t) == [type |-> t, items |-> <<>>]

\* what the call of the model gives: the prompt file may be missing, the
\* call may fail, the answer may be no JSON; otherwise the answer is the
\* JSON object `members`
Reply(p, t, v, m) == [prompt |-> p, transport |-> t, valid |-> v, members |-> m]

\* generate_tags: load the prompt, call the model, parse, filter
generate_tags(r) ==
    IF ~r.prompt
    THEN Raise("generate_tags", "FileNotFoundError")
    ELSE IF ~r.transport
    THEN Raise("generate_tags", "Error calling OpenAI API")
    ELSE IF ~r.valid
    THEN Raise("generate_tags", "Failed to parse OpenAI response as JSON")
    ELSE IF \E c \in DOMAIN r.members :
                /\ r.members[c].type = "list"
                /\ \E k \in 1..Len(r.members[c].items) :
                       ~Comparable(r.members[c].items[k])
    THEN Raise("generate_tags", "Error calling OpenAI API")
    ELSE Return("generate_tags",
                [c \in DOMAIN r.members |->
                    IF r.members[c].type = "list"
                    THEN Take(SelectSeq(r.members[c].items, TagKept),
                              max_tags_per_category)
                    ELSE <<>>])

\* display_results, the part for the tags: tag_data['tag'] raises KeyError
\* for a kept element without the key 'tag'
DisplayableTags(ts) ==
    \A c \in DOMAIN ts : \A k \in 1..Len(ts[c]) : "tag" \in ts[c][k].keys

\* the elements of the exploration
TagPool == {Tag("Nike", 95), Tag("Amazon", 50), Tag("Adidas", 49),
            TagWithout("Puma"), Nameless(90), Bare("Fila"),
            TagOdd("Gap", "null"), TagOdd("Zara", "str"), TagOdd("Asics", "bool")}

\* the lists of at most MaxTags elements of the pool
ShortLists == UNION {[1..n -> TagPool] : n \in 0..MaxTags}

\* six elements pass the threshold, the sixth is cut
SixPass == <<Tag("Nike", 95), Tag("Amazon", 50), Tag("Uniqlo", 70),
             Tag("Muji", 60), Tag("Sony", 80), Tag("Lego", 99)>>
\* elements that are dropped between elements that pass
Interleaved == <<Tag("Adidas", 49), Tag("Nike", 95), Bare("Fila"), Tag("Muji", 60),
                 TagWithout("Puma"), Tag("Sony", 80), Tag("Lego", 99),
                 Tag("Amazon", 50), Tag("Uniqlo", 70)>>

CategoryValues == {ListOf(l) : l \in ShortLists \cup {SixPass, Interleaved}}
                  \cup {NotAList("str"), NotAList("null")}

\* the JSON objects of the exploration: no key, one key, two keys
Objects ==
    {<<>>}
    \cup {[c \in {"brands"} |-> v] : v \in CategoryValues}
    \cup {[c \in {"brands", "source_regions"} |->
              IF c = "brands" THEN v ELSE w] :
                v \in {ListOf(<<>>), ListOf(SixPass), NotAList("str")},
                w \in CategoryValues}

Replies ==
    {Reply(FALSE, TRUE, TRUE, <<>>), Reply(TRUE, FALSE, TRUE, <<>>),
     Reply(TRUE, TRUE, FALSE, <<>>)}
    \cup {Reply(TRUE, TRUE, TRUE, m) : m \in Objects}

\* the sample text of the demonstration mode
SampleText ==
    <<"\n"," "," "," "," "," "," "," "," ","T","h","e"," ","q","u","i","c",
      "k"," ","b","r","o","w","n"," ","f","o","x"," ","j","u","m","p","s",
      " ","o","v","e","r"," ","t","h","e"," ","l","a","z","y"," ","d","o",
      "g","."," ","T","h","i","s"," ","i","s"," ","a"," ","s","a","m","p",
      "l","e"," ","t","e","x","t"," ","f","o","r"," ","\n"," "," "," "," ",
      " "," "," "," ","d","e","m","o","n","s","t","r","a","t","i","n","g",
      " ","t","h","e"," ","c","o","n","t","e","n","t"," ","a","n","a","l",
      "y","z","e","r","."," ","I","t"," ","i","n","c","l","u","d","e","s",
      " ","m","u","l","t","i","p","l","e"," ","s","e","n","t","e","n","c",
      "e","s"," ","w","i","t","h"," ","\n"," "," "," "," "," "," "," "," ",
      "v","a","r","y","i","n","g"," ","c","o","m","p","l","e","x","i","t",
      "y","."," ","T","h","e"," ","a","n","a","l","y","z","e","r"," ","c",
      "a","n"," ","c","a","l","c","u","l","a","t","e"," ","w","o","r","d",
      " ","c","o","u","n","t","s",","," ","r","e","a","d","a","b","i","l",
      "i","t","y"," ","\n"," "," "," "," "," "," "," "," ","s","c","o","r",
      "e","s",","," ","a","n","d"," ","e","x","t","r","a","c","t"," ","k",
      "e","y","w","o","r","d","s"," ","f","r","o","m"," ","a","n","y"," ",
      "g","i","v","e","n"," ","t","e","x","t","."," ","T","h","i","s"," ",
      "t","o","o","l"," ","i","s"," ","u","s","e","f","u","l"," ","\n"," ",
      " "," "," "," "," "," "," ","f","o","r"," ","w","r","i","t","e","r",
      "s",","," ","e","d","i","t","o","r","s",","," ","a","n","d"," ","c",
      "o","n","t","e","n","t"," ","c","r","e","a","t","o","r","s"," ","w",
      "h","o"," ","w","a","n","t"," ","t","o"," ","u","n","d","e","r","s",
      "t","a","n","d"," ","t","h","e"," ","\n"," "," "," "," "," "," "," ",
      " ","c","h","a","r","a","c","t","e","r","i","s","t","i","c","s"," ",
      "o","f"," ","t","h","e","i","r"," ","t","e","x","t",".","\n"," "," ",
      " "," "," "," "," "," ">>

-----------------------------------------------------------------------------
(* The state machine *)

\* ContentAnalyzer(s)
Init ==
    \E s \in Texts :
        /\ text = s
        /\ sentences = _split_sentences(s)
        /\ words = _extract_words(s)
        /\ result = Return("__init__", <<>>)
        /\ float_up \in SUBSET FloatTies(sentences, words)
        /\ earlier = <<>>
        /\ pc = "caller"
        /\ argv = <<>>
        /\ trace = <<>>
        /\ content = <<>>
        /\ tags = <<>>

\* the texts a further instance is constructed from, besides the text of the
\* current instance and the text of the remembered analysis
Reconstructed == {Apple, Mixed(1, 3)}

\* the history after a call that is not the remembered analysis
Since(field) ==
    IF earlier = <<>> THEN earlier ELSE <<[earlier[1] EXCEPT ![field] = TRUE]>>

\* ContentAnalyzer(s) once more: a new instance replaces the current one.
\* The float arithmetic is a function of the text, so an instance of a text
\* seen before rounds as the instance before it did.
Construct ==
    /\ \E s \in Reconstructed \cup {text} \cup {earlier[k].text : k \in 1..Len(earlier)} :
           /\ text' = s
           /\ sentences' = _split_sentences(s)
           /\ words' = _extract_words(s)
           /\ float_up' \in IF s = text THEN {float_up}
                            ELSE IF earlier # <<>> /\ s = earlier[1].text
                                 THEN {earlier[1].float_up}
                                 ELSE SUBSET FloatTies(sentences', words')
    /\ result' = Return("__init__", <<>>)
    /\ earlier' = Since("replaced")
    /\ UNCHANGED main_vars

WordCount ==
    /\ result' = Return("word_count", word_count(text, sentences, words))
    /\ earlier' = Since("between")
    /\ UNCHANGED <<text, sentences, words, float_up, main_vars>>

ReadabilityScore ==
    /\ result' = readability_score(sentences, words, float_up)
    /\ earlier' = Since("between")
    /\ UNCHANGED <<text, sentences, words, float_up, main_vars>>

\* the helper is called for each word of the instance; it lowercases its
\* argument itself, so it is also called for the words as they are spelled
CountSyllables ==
    /\ \E w \in Range(words) \cup Range(re_findall(text)) :
           result' = Return("_count_syllables", _count_syllables(w)) @@ [arg |-> w]
    /\ earlier' = Since("between")
    /\ UNCHANGED <<text, sentences, words, float_up, main_vars>>

\* faulty variant: the filtered words are stored back into the instance
KeywordExtraction_in_place ==
    /\ \E top_n \in 0..MaxTopN :
           result' = Return("keyword_extraction", keyword_extraction(words, top_n))
                     @@ [arg |-> top_n]
    /\ words' = filtered_words(words)
    /\ earlier' = Since("between")
    /\ UNCHANGED <<text, sentences, float_up, main_vars>>

KeywordExtraction ==
    /\ \E top_n \in 0..MaxTopN :
           result' = Return("keyword_extraction", keyword_extraction(words, top_n))
                     @@ [arg |-> top_n]
    /\ earlier' = Since("between")
    /\ UNCHANGED <<text, sentences, words, float_up, main_vars>>

\* faulty variant: the raw text is lowercased in place
AnalyzeAll_lowercasing ==
    /\ result' = analyze_all(text, sentences, words, float_up)
    /\ text' = lower(text)
    /\ earlier' = IF earlier # <<>> /\ earlier[1].text # text
                  THEN Since("between") ELSE earlier
    /\ UNCHANGED <<sentences, words, float_up, main_vars>>

AnalyzeAll ==
    /\ result' = analyze_all(text, sentences, words, float_up)
    /\ earlier' = IF earlier # <<>> /\ earlier[1].text # text
                  THEN Since("between") ELSE earlier
    /\ UNCHANGED <<text, sentences, words, float_up, main_vars>>

\* the caller keeps the value analyze_all has just returned
Remember ==
    /\ result.op = "analyze_all"
    /\ earlier = <<>>
    /\ earlier' = <<[text |-> text, float_up |-> float_up, returned |-> result,
                     replaced |-> FALSE, between |-> FALSE]>>
    /\ UNCHANGED <<text, sentences, words, float_up, result, main_vars>>

Next ==
    \/ WordCount
    \/ ReadabilityScore
    \/ CountSyllables
    \/ KeywordExtraction
    \/ AnalyzeAll

Spec == Init /\ [][Next]_vars

\* repeated analyses: instances are replaced and one returned value is kept
TwiceTexts == {s \in Texts : Len(s) <= MaxLenTwice} \cup Corpus

InitTwice == Init /\ text \in TwiceTexts

NextTwice ==
    \/ Construct
    \/ Remember
    \/ WordCount
    \/ ReadabilityScore
    \/ CountSyllables
    \/ KeywordExtraction
    \/ AnalyzeAll

SpecTwice == InitTwice /\ [][NextTwice]_vars

-----------------------------------------------------------------------------
(* A run of main() *)

\* sys.argv without the name of the script
Argvs == {<<>>, <<AutoTagFlag>>}
         \cup {<<AutoTagFlag, a>> : a \in Arguments}
         \cup {<<a>> : a \in Arguments}

\* the entries of trace: a step with its outcome, or a printed message
Step(name, outcome) == [step |-> name, outcome |-> outcome]
Message(m) == [step |-> "print", outcome |-> m]

analyzer_vars == <<text, sentences, words, float_up, earlier>>

InitRun ==
    /\ argv \in Argvs
    /\ pc = "main"
    /\ trace = <<>>
    /\ content = <<>>
    /\ tags = <<>>
    /\ text = <<>>
    /\ sentences = <<>>
    /\ words = <<>>
    /\ float_up = {}
    /\ earlier = <<>>
    /\ result = Return("main", <<>>)

\* the branches of main(): --auto-tag with or without an argument, an
\* argument that is a URL or not, no argument
Main ==
    /\ pc = "main"
    /\ IF Len(argv) > 0 /\ argv[1] = AutoTagFlag
       THEN IF Len(argv) < 2
            THEN pc' = "done" /\ trace' = Append(trace, Message("Usage"))
            ELSE pc' = "is_url" /\ trace' = trace
       ELSE IF Len(argv) > 0
            THEN /\ pc' = IF is_url(argv[1]) THEN "basic_fetch" ELSE "read_file"
                 /\ trace' = trace
            ELSE /\ pc' = "demo"
                 /\ trace' = Append(trace, Message("No input provided"))
    /\ UNCHANGED <<argv, content, tags, result, analyzer_vars>>

\* if not is_url(url): print(...); return
ValidateUrl ==
    /\ pc = "is_url"
    /\ IF is_url(argv[2])
       THEN /\ pc' = "AutoTagger"
            /\ trace' = Append(trace, Step("is_url", "ok"))
       ELSE /\ pc' = "done"
            /\ trace' = trace \o <<Step("is_url", "failed"),
                                   Message("Error: Auto-tagging requires a valid URL")>>
    /\ UNCHANGED <<argv, content, tags, result, analyzer_vars>>

\* tagger = AutoTagger(): ValueError without an API key
ConstructTagger ==
    /\ pc = "AutoTagger"
    /\ \E api_key \in BOOLEAN :
           IF api_key
           THEN /\ pc' = "fetch"
                /\ trace' = Append(trace, Step("AutoTagger", "ok"))
           ELSE /\ pc' = "done"
                /\ trace' = trace \o <<Step("AutoTagger", "failed"),
                                       Message("Error in auto-tagging")>>
    /\ UNCHANGED <<argv, content, tags, result, analyzer_vars>>

\* analyze_url: content = fetch_url_content(url)
FetchAuto ==
    /\ pc = "fetch"
    /\ \E r \in Exchanges :
           LET fetched == fetch_url_content(r)
           IN  /\ result' = fetched @@ [arg |-> r]
               /\ IF fetched.raised
                  THEN /\ pc' = "done"
                       /\ content' = content
                       /\ trace' = trace \o <<Step("fetch_url_content", "failed"),
                                              Message("Error in auto-tagging")>>
                  ELSE /\ pc' = "generate_tags"
                       /\ content' = fetched.value
                       /\ trace' = Append(trace, Step("fetch_url_content", "ok"))
    /\ UNCHANGED <<argv, tags, analyzer_vars>>

\* faulty variant: a failure of the tagger is swallowed, the run goes on
\* without tags
GenerateTags_swallowing ==
    /\ pc = "generate_tags"
    /\ \E r \in Replies :
           LET generated == generate_tags(r)
           IN  /\ result' = generated @@ [arg |-> r]
               /\ pc' = "analyze"
               /\ IF generated.raised
                  THEN /\ tags' = <<>>
                       /\ trace' = Append(trace, Step("generate_tags", "failed"))
                  ELSE /\ tags' = generated.value
                       /\ trace' = Append(trace, Step("generate_tags", "ok"))
    /\ UNCHANGED <<argv, content, analyzer_vars>>

\* analyze_url: tags = self.generate_tags(content, url, title)
GenerateTags ==
    /\ pc = "generate_tags"
    /\ \E r \in Replies :
           LET generated == generate_tags(r)
           IN  /\ result' = generated @@ [arg |-> r]
               /\ IF generated.raised
                  THEN /\ pc' = "done"
                       /\ tags' = tags
                       /\ trace' = trace \o <<Step("generate_tags", "failed"),
                                              Message("Error in auto-tagging")>>
                  ELSE /\ pc' = "analyze"
                       /\ tags' = generated.value
                       /\ trace' = Append(trace, Step("generate_tags", "ok"))
    /\ UNCHANGED <<argv, content, analyzer_vars>>

\* analyzer = ContentAnalyzer(content); analyzer.analyze_all()
AnalyzeContent ==
    /\ pc = "analyze"
    /\ text' = content
    /\ sentences' = _split_sentences(content)
    /\ words' = _extract_words(content)
    /\ float_up' \in SUBSET FloatTies(sentences', words')
    /\ result' = analyze_all(text', sentences', words', float_up')
    /\ trace' = trace \o <<Step("ContentAnalyzer", "ok"), Step("analyze_all", "ok")>>
    /\ pc' = "display"
    /\ UNCHANGED <<argv, content, tags, earlier>>

\* display_results(results): the analysis, then, with --auto-tag, the tags
Display ==
    /\ pc = "display"
    /\ IF Len(argv) > 0 /\ argv[1] = AutoTagFlag
       THEN IF DisplayableTags(tags)
            THEN /\ pc' = "save"
                 /\ trace' = trace \o <<Message("Content Analysis Results"),
                                        Message("Auto-Generated Tags"),
                                        Step("display_results", "ok")>>
            ELSE /\ pc' = "done"
                 /\ trace' = trace \o <<Message("Content Analysis Results"),
                                        Message("Auto-Generated Tags"),
                                        Step("display_results", "failed"),
                                        Message("Error in auto-tagging")>>
       ELSE /\ pc' = "done"
            /\ trace' = trace \o <<Message("Content Analysis Results"),
                                   Step("display_results", "ok")>>
    /\ UNCHANGED <<argv, content, tags, result, analyzer_vars>>

\* save_results_json(results, url): open() raises where the file cannot be
\* written
Save ==
    /\ pc = "save"
    /\ \E writable \in BOOLEAN :
           trace' = trace \o
               IF writable
               THEN <<Step("save_results_json", "ok"), Message("Results saved")>>
               ELSE <<Step("save_results_json", "failed"),
                      Message("Error in auto-tagging")>>
    /\ pc' = "done"
    /\ UNCHANGED <<argv, content, tags, result, analyzer_vars>>

\* basic mode with a URL: text = fetch_url_content(input_source)
FetchBasic ==
    /\ pc = "basic_fetch"
    /\ \E r \in Exchanges :
           LET fetched == fetch_url_content(r)
           IN  /\ result' = fetched @@ [arg |-> r]
               /\ IF fetched.raised
                  THEN /\ pc' = "done"
                       /\ content' = content
                       /\ trace' = trace \o <<Step("fetch_url_content", "failed"),
                                              Message("Error fetching URL")>>
                  ELSE /\ pc' = "analyze"
                       /\ content' = fetched.value
                       /\ trace' = trace \o <<Step("fetch_url_content", "ok"),
                                              Message("Successfully extracted")>>
    /\ UNCHANGED <<argv, tags, analyzer_vars>>

\* basic mode with a path: the file is read, is not found, or cannot be read
ReadFile ==
    /\ pc = "read_file"
    /\ \/ /\ \E b \in PageBodies : content' = b
          /\ pc' = "analyze"
          /\ trace' = trace \o <<Step("open", "ok"), Message("Analyzing content from file")>>
       \/ /\ \E m \in {"Error: File not found", "Error reading file"} :
                 trace' = trace \o <<Step("open", "failed"), Message(m)>>
          /\ pc' = "done"
          /\ content' = content
    /\ UNCHANGED <<argv, tags, result, analyzer_vars>>

\* no argument: the sample text is analysed
Demo ==
    /\ pc = "demo"
    /\ content' = SampleText
    /\ pc' = "analyze"
    /\ UNCHANGED <<argv, trace, tags, result, analyzer_vars>>

NextRun ==
    \/ Main
    \/ ValidateUrl
    \/ ConstructTagger
    \/ FetchAuto
    \/ GenerateTags
    \/ AnalyzeContent
    \/ Display
    \/ Save
    \/ FetchBasic
    \/ ReadFile
    \/ Demo

SpecRun == InitRun /\ [][NextRun]_vars

-----------------------------------------------------------------------------
(* Properties *)

FourFields == {"flesch_reading_ease", "grade_level",
               "avg_sentence_length", "avg_syllables_per_word"}
TwoFields == {"flesch_reading_ease", "grade_level"}

\* the unclamped formula value of the instance
FormulaValue == FleschFormula(Len(words), Len(sentences), SumSyllables(words, 1, Len(words)))

\* x is exactly h hundredths
IsHundredths(x, h) ==
    /\ x.num \div x.den = h \div 100
    /\ (x.num % x.den) * 100 = (h % 100) * x.den

\* number of occurrences of w in ws
Occurrences(ws, w) == Cardinality({k \in 1..Len(ws) : ws[k] = w})
\* position of the first occurrence of w in ws
FirstIndex(ws, w) == SetMin({k \in 1..Len(ws) : ws[k] = w})

\* the words keyword extraction counts: not a stop word, longer than 2
RetainedSeq == SelectSeq(words, LAMBDA w : w \notin stop_words /\ Len(w) > 2)
RetainedSet == Range(RetainedSeq)

\* C1: analyze_all returns, for every text, a result with the parts
\* word_count, readability and keywords and never raises; for the empty
\* text every count is 0, readability is the degenerate value and there are
\* no keywords.
C1_AnalyzeAllNeverRaises ==
    result.op = "analyze_all" =>
        /\ ~result.raised
        /\ DOMAIN result.value = {"word_count", "readability", "keywords"}
        /\ text = <<>> =>
              /\ \A f \in DOMAIN result.value.word_count :
                     result.value.word_count[f] = 0
              /\ DOMAIN result.value.readability = TwoFields
              /\ result.value.readability.flesch_reading_ease = 0
              /\ result.value.readability.grade_level = "N/A"
              /\ result.value.keywords = <<>>

C1_Witness ==
    /\ result.op = "analyze_all"
    /\ text = <<>>
    /\ ~result.raised
    /\ result.value.word_count.total_words = 0

\* C2: readability_score returns the two-field degenerate value exactly when
\* there are no sentences or no words; otherwise it returns the four fields;
\* it never divides by zero.
C2_DegenerateIffEmpty ==
    result.op = "readability_score" =>
        /\ ~result.raised
        /\ (sentences = <<>> \/ words = <<>>) <=>
              /\ DOMAIN result.value = TwoFields
              /\ result.value.flesch_reading_ease = 0
              /\ result.value.grade_level = "N/A"
        /\ ~(sentences = <<>> \/ words = <<>>) => DOMAIN result.value = FourFields

C2_Witness ==
    /\ result.op = "readability_score"
    /\ sentences # <<>>
    /\ words = <<>>
    /\ ~result.raised
    /\ DOMAIN result.value = TwoFields

\* C3: with a sentence and a word the reported score lies in [0, 100]; it is
\* exactly 0 when the formula value is below 0 and exactly 100 when the
\* formula value is above 100.
C3_ScoreClamped ==
    (result.op = "readability_score" /\ sentences # <<>> /\ words # <<>>) =>
        /\ ~result.raised
        /\ result.value.flesch_reading_ease \in 0..10000
        /\ FormulaValue.num < 0 => result.value.flesch_reading_ease = 0
        /\ FormulaValue.num > 100 * FormulaValue.den =>
               result.value.flesch_reading_ease = 10000

C3_Witness ==
    /\ result.op = "readability_score"
    /\ sentences # <<>> /\ words # <<>>
    /\ FormulaValue.num < 0
    /\ result.value.flesch_reading_ease = 0

\* C4: the grade label is the label of the highest threshold among 90, 80,
\* 70, 60, 50, 30 that the clamped score reaches (the threshold included),
\* and 'Graduate level' below 30; a score of exactly 90 is '5th grade' and a
\* score of exactly 89.99 is '6th grade'.
C4_GradeBands ==
    (result.op = "readability_score" /\ sentences # <<>> /\ words # <<>>) =>
        LET score == Clamp(FormulaValue)
            thresholds == <<90, 80, 70, 60, 50, 30>>
            labels == <<"5th grade", "6th grade", "7th grade", "8th-9th grade",
                        "10th-12th grade", "College level">>
            reached == {k \in 1..6 : score.num >= thresholds[k] * score.den}
        IN  /\ result.value.grade_level =
                   IF reached = {} THEN "Graduate level" ELSE labels[SetMin(reached)]
            /\ IsHundredths(score, 9000) => result.value.grade_level = "5th grade"
            /\ IsHundredths(score, 8999) => result.value.grade_level = "6th grade"

\* a score exactly on a threshold
C4_Witness ==
    /\ result.op = "readability_score"
    /\ sentences # <<>> /\ words # <<>>
    /\ IsHundredths(Clamp(FormulaValue), 7000)
    /\ result.value.grade_level = "7th grade"

\* C5 as stated: _count_syllables('apple') returns 2.
C5_AppleIsTwo ==
    (result.op = "_count_syllables" /\ result.arg = Apple) => result.value = 2

\* C5 amended: _count_syllables('apple') returns 1: 'apple' has the two vowel
\* runs 'a' and 'e', and the silent-e adjustment reduces 2 to 1.
C5_AppleIsOne ==
    (result.op = "_count_syllables" /\ result.arg = Apple) =>
        /\ result.value = 1
        /\ Cardinality({i \in 1..Len(Apple) :
               Apple[i] \in Vowels /\ (i = 1 \/ Apple[i-1] \notin Vowels)}) = 2

C5_Witness ==
    /\ result.op = "_count_syllables"
    /\ result.arg = Apple
    /\ text = Apple

\* C6 as stated: _count_syllables('create') returns 2.
C6_CreateIsTwo ==
    (result.op = "_count_syllables" /\ result.arg = Create) => result.value = 2

\* C6 amended: _count_syllables('create') returns 1: the vowel runs 'ea' and
\* 'e' count 2 and the silent-e adjustment reduces 2 to 1.
C6_CreateIsOne ==
    (result.op = "_count_syllables" /\ result.arg = Create) => result.value = 1

C6_Witness ==
    /\ result.op = "_count_syllables"
    /\ result.arg = Create
    /\ text = Create

\* C7: _count_syllables(w) is max(1, r - d), r the number of maximal vowel
\* runs of lowercase w and d = 1 if w ends with 'e' and r > 1, else 0; it is
\* at least 1, and it is 1 for 'the' and for 'rhythm'.
C7_SyllableFormula ==
    result.op = "_count_syllables" =>
        LET w == lower(result.arg)
            r == Cardinality({i \in 1..Len(w) :
                     w[i] \in Vowels /\ (i = 1 \/ w[i-1] \notin Vowels)})
            d == IF Len(w) > 0 /\ w[Len(w)] = "e" /\ r > 1 THEN 1 ELSE 0
        IN  /\ result.value = (IF r - d >= 1 THEN r - d ELSE 1)
            /\ result.value >= 1
            /\ result.arg \in {The, Rhythm} => result.value = 1

\* a word without a vowel: the floor decides
C7_Witness ==
    /\ result.op = "_count_syllables"
    /\ \A i \in 1..Len(result.arg) : lower(result.arg)[i] \notin Vowels
    /\ result.value = 1

\* C8: no keyword is a stop word or a word of at most 2 characters, however
\* frequent; exactly the words that are no stop word and longer than 2 are
\* counted.
C8_NoStopOrShortWords ==
    result.op = "keyword_extraction" =>
        /\ \A k \in 1..Len(result.value) :
               /\ result.value[k][1] \notin stop_words
               /\ Len(result.value[k][1]) > 2
               /\ result.value[k][1] \in Range(words)
        /\ Len(result.value) < result.arg =>
               {result.value[k][1] : k \in 1..Len(result.value)} = RetainedSet

\* a stop word and a short word each more frequent than the first keyword
C8_Witness ==
    /\ result.op = "keyword_extraction"
    /\ result.value # <<>>
    /\ \E w \in Range(words) \cap stop_words :
           Occurrences(words, w) > result.value[1][2]
    /\ \E w \in Range(words) \ stop_words :
           Len(w) <= 2 /\ Occurrences(words, w) > result.value[1][2]

\* C9: the keywords are in descending order of frequency, each frequency is
\* the number of occurrences among the retained words, equal frequencies are
\* in order of first appearance; 'cat cat dog dog dog bird' with top_n = 2
\* gives [('dog', 3), ('cat', 2)].
C9_KeywordOrder ==
    result.op = "keyword_extraction" =>
        /\ \A k \in 1..Len(result.value) :
               result.value[k][2] = Occurrences(RetainedSeq, result.value[k][1])
        /\ \A i, j \in 1..Len(result.value) :
               i < j =>
                  /\ result.value[i][2] >= result.value[j][2]
                  /\ result.value[i][2] = result.value[j][2] =>
                         FirstIndex(RetainedSeq, result.value[i][1])
                             < FirstIndex(RetainedSeq, result.value[j][1])
        /\ (text = CatDogBird /\ result.arg = 2) =>
               result.value = << <<<<"d","o","g">>, 3>>, <<<<"c","a","t">>, 2>> >>

\* two keywords of equal frequency, and a more frequent keyword that first
\* appears after a less frequent one
C9_Witness ==
    /\ result.op = "keyword_extraction"
    /\ \E i, j \in 1..Len(result.value) :
           /\ i < j
           /\ result.value[i][2] = result.value[j][2]
    /\ \E i, j \in 1..Len(result.value) :
           /\ i < j
           /\ result.value[i][2] > result.value[j][2]
           /\ FirstIndex(RetainedSeq, result.value[i][1])
                  > FirstIndex(RetainedSeq, result.value[j][1])

\* C10: keyword_extraction(top_n) with top_n >= 0 returns min(top_n, D)
\* entries with pairwise distinct words, D the number of distinct retained
\* words, all of them when top_n exceeds D; analyze_all uses top_n = 10.
C10_KeywordCount ==
    LET D == Cardinality(RetainedSet)
    IN  /\ result.op = "keyword_extraction" =>
              /\ Len(result.value) = (IF result.arg <= D THEN result.arg ELSE D)
              /\ \A i, j \in 1..Len(result.value) :
                     i # j => result.value[i][1] # result.value[j][1]
              /\ result.arg > D =>
                     {result.value[k][1] : k \in 1..Len(result.value)} = RetainedSet
        /\ (result.op = "analyze_all" /\ ~result.raised) =>
              Len(result.value.keywords) = (IF 10 <= D THEN 10 ELSE D)

\* fewer keywords asked for than there are distinct retained words
C10_Witness ==
    /\ result.op = "keyword_extraction"
    /\ result.arg > 0
    /\ result.arg < Cardinality(RetainedSet)
    /\ Len(result.value) = result.arg

\* number of positions of s that hold a character of the set cs
CountOf(s, cs) == Cardinality({k \in 1..Len(s) : s[k] \in cs})

\* the word statistics a result carries
Stats == IF result.op = "word_count" THEN result.value ELSE result.value.word_count

\* C11: characters is the length of the text and characters_no_spaces is
\* characters minus the number of ASCII spaces; tabs and newlines are still
\* counted in characters_no_spaces.
C11_CharacterCounts ==
    (result.op \in {"word_count", "analyze_all"} /\ ~result.raised) =>
        /\ Stats.characters = Len(text)
        /\ Stats.characters_no_spaces = Stats.characters - CountOf(text, {" "})
        /\ Stats.characters_no_spaces >= CountOf(text, Whitespace \ {" "})

\* a text with spaces and with a tab and a newline, all counted
C11_Witness ==
    /\ result.op = "word_count"
    /\ CountOf(text, {" "}) > 0
    /\ CountOf(text, {"\t"}) > 0
    /\ CountOf(text, {"\n"}) > 0
    /\ result.value.characters_no_spaces
           = Len(text) - CountOf(text, Whitespace) + CountOf(text, {"\t", "\n"})

\* t is s without its leading and trailing whitespace
IsTrimOf(t, s) ==
    \E i, j \in 1..Len(s) :
        /\ i <= j
        /\ t = SubSeq(s, i, j)
        /\ s[i] \notin Whitespace
        /\ s[j] \notin Whitespace
        /\ \A k \in 1..Len(s) : (k < i \/ k > j) => s[k] \in Whitespace

\* C12 as stated: for every non-empty text without '.', '!' and '?' the
\* sentence list is the one-element list holding the trimmed text.
C12_SingleSentence ==
    (text # <<>> /\ CountOf(text, Terminators) = 0) =>
        (Len(sentences) = 1 /\ sentences[1] = strip(text))

\* C12 amended: for every text without '.', '!' and '?' that holds at least
\* one non-whitespace character the sentence list is the one-element list
\* holding the trimmed text; for a text made of whitespace only it is empty.
C12_SingleSentenceIfVisible ==
    CountOf(text, Terminators) = 0 =>
        IF CountOf(text, Whitespace) < Len(text)
        THEN Len(sentences) = 1 /\ IsTrimOf(sentences[1], text)
        ELSE sentences = <<>>

\* a text without terminators whose single sentence lost whitespace at
\* both ends
C12_Witness ==
    /\ CountOf(text, Terminators) = 0
    /\ Len(text) >= 3
    /\ text[1] \in Whitespace
    /\ text[Len(text)] \in Whitespace
    /\ Len(sentences) = 1
    /\ Len(sentences[1]) < Len(text) - 1
    /\ result.op = "__init__"

\* the maximal runs of ASCII letters of s, from left to right
LetterRuns(s) ==
    LET starts == Ascending({i \in 1..Len(s) :
                      s[i] \in AsciiLetters /\ (i = 1 \/ s[i-1] \notin AsciiLetters)})
        ends == Ascending({i \in 1..Len(s) :
                      s[i] \in AsciiLetters /\ (i = Len(s) \/ s[i+1] \notin AsciiLetters)})
    IN  [k \in 1..Len(starts) |-> SubSeq(s, starts[k], ends[k])]

\* C13: the words are, in order of appearance and with duplicates, the
\* maximal runs of ASCII letters of the lowercased text; digits, punctuation
\* and non-ASCII letters only separate, so a run that adjoins a digit or a
\* non-ASCII letter is a word as well.
C13_LetterRunsAreWords ==
    words = LetterRuns(lower(text))

\* C20: a non-empty word list implies a non-empty sentence list, so
\* readability_score returns the degenerate value exactly when there are no
\* words; there may be more sentences than words, but never no sentence
\* while there are words.
C20_WordsImplySentences ==
    /\ words # <<>> => sentences # <<>>
    /\ \A k \in 1..Len(words) :
           \E j \in 1..Len(sentences) :
               \E a \in 1..(Len(sentences[j]) - Len(words[k]) + 1) :
                   lower(SubSeq(sentences[j], a, a + Len(words[k]) - 1)) = words[k]
    /\ (result.op = "readability_score" /\ ~result.raised) =>
           (result.value = Degenerate <=> words = <<>>)

\* more sentences than words, and the four-field value is returned
C20_Witness ==
    /\ result.op = "readability_score"
    /\ words # <<>>
    /\ Len(sentences) > Len(words)
    /\ DOMAIN result.value = FourFields

\* h hundredths is a nearest hundredth of the non-negative x
NearestHundredth(x, h) ==
    LET rest == (x.num % x.den) * 100
        below == (x.num \div x.den) * 100 + (rest \div x.den)
        twice == 2 * (rest % x.den)
    IN  \/ h = below /\ twice <= x.den
        \/ h = below + 1 /\ twice >= x.den

GradeLabels == <<"5th grade", "6th grade", "7th grade", "8th-9th grade",
                 "10th-12th grade", "College level", "Graduate level">>
GradeThresholds == <<90, 80, 70, 60, 50, 30>>

\* C16: the grade label is the band of the unrounded clamped score, while
\* flesch_reading_ease, avg_sentence_length and avg_syllables_per_word are
\* reported rounded to two decimals; where the rounded score lands on a
\* threshold that the unrounded score does not reach, the label is the one
\* of the band below the threshold.
C16_LabelFromUnrounded ==
    (result.op = "readability_score" /\ sentences # <<>> /\ words # <<>>) =>
        LET score == Clamp(FormulaValue)
            syl == SumSyllables(words, 1, Len(words))
            label == result.value.grade_level
        IN  /\ NearestHundredth(score, result.value.flesch_reading_ease)
            /\ NearestHundredth([num |-> Len(words), den |-> Len(sentences)],
                                result.value.avg_sentence_length)
            /\ NearestHundredth([num |-> syl, den |-> Len(words)],
                                result.value.avg_syllables_per_word)
            /\ \A k \in 1..6 :
                   (label \in {GradeLabels[j] : j \in 1..k})
                       <=> score.num >= GradeThresholds[k] * score.den
            /\ \A k \in 1..6 :
                   (/\ result.value.flesch_reading_ease = GradeThresholds[k] * 100
                    /\ score.num < GradeThresholds[k] * score.den)
                       => label = GradeLabels[k + 1]

\* the score is reported as 90.0 and the label is the one of the band
\* below 90
C16_Witness ==
    /\ result.op = "readability_score"
    /\ sentences # <<>> /\ words # <<>>
    /\ result.value.flesch_reading_ease = 9000
    /\ Clamp(FormulaValue).num < 90 * Clamp(FormulaValue).den
    /\ result.value.grade_level = "6th grade"

\* C14: analyze_all is deterministic and has no hidden state: on the text
\* of a kept analysis it returns the kept value again, on the same instance
\* or on another instance of that text, whatever was analysed in between.
C14_SameTextSameResult ==
    (result.op = "analyze_all" /\ earlier # <<>> /\ earlier[1].text = text) =>
        result = earlier[1].returned

\* a second analysis on another instance of the text, after other analyses
C14_Witness ==
    /\ result.op = "analyze_all"
    /\ earlier # <<>>
    /\ earlier[1].text = text
    /\ earlier[1].replaced
    /\ earlier[1].between
    /\ words # <<>>
    /\ result.value.keywords # <<>>

MetricOps == {"word_count", "readability_score", "_count_syllables",
              "keyword_extraction", "analyze_all"}

\* C15: no call of word_count, readability_score, keyword_extraction or
\* analyze_all changes the text, the sentences or the words of the instance;
\* the two lists stay the ones the constructor derived from the text.
C15_MetricsLeaveInstance ==
    [][result'.op \in MetricOps =>
           /\ text' = text
           /\ sentences' = sentences
           /\ words' = words
           /\ sentences' = _split_sentences(text')
           /\ words' = _extract_words(text')]_vars

\* several calls on one instance, whose lists are still the constructor's
C15_Witness ==
    /\ result.op = "keyword_extraction"
    /\ earlier # <<>>
    /\ earlier[1].text = text
    /\ ~earlier[1].replaced
    /\ earlier[1].between
    /\ words # <<>>
    /\ Len(words) > Len(filtered_words(words))
    /\ text # lower(text)
    /\ sentences = _split_sentences(text)
    /\ words = _extract_words(text)

\* the modes of a run
AutoTagMode == Len(argv) >= 2 /\ argv[1] = AutoTagFlag
BasicUrlMode == Len(argv) >= 1 /\ argv[1] # AutoTagFlag /\ is_url(argv[1])

\* the positions of trace that hold the step `name` / with that outcome
StepsOf(name) == {k \in 1..Len(trace) : trace[k].step = name}
StepsWith(name, outcome) == {k \in StepsOf(name) : trace[k].outcome = outcome}
Printed(m) == StepsWith("print", m)

\* the exchange is one of the failures of a fetch: an exception of the
\* request, an error status, a content type that is not HTML, no text
FetchFailure(r) ==
    \/ r.exception \in {"Timeout", "ConnectionError", "RequestException"}
    \/ r.status >= 400
    \/ r.content_type \notin {"text/html", "text/html; charset=utf-8", "Text/HTML"}
    \/ CountOf(r.body, Whitespace) = Len(r.body)

\* C17: in basic mode with a URL, fetch_url_content is called once and never
\* again; every failure of the fetch (exception of the request, error
\* status, content type that is not HTML, no text) is raised and not
\* returned, and the run then ends without an instance of ContentAnalyzer
\* and without displaying an analysis; a fetch that returns returns a
\* non-empty text.
C17_FetchOnceNoRetry ==
    BasicUrlMode =>
        /\ Cardinality(StepsOf("fetch_url_content")) <= 1
        /\ pc \in {"analyze", "display", "done"} =>
               Cardinality(StepsOf("fetch_url_content")) = 1
        /\ result.op = "fetch_url_content" =>
               /\ result.raised <=> FetchFailure(result.arg)
               /\ ~result.raised =>
                      /\ result.value # <<>>
                      /\ result.value = content
        /\ StepsWith("fetch_url_content", "failed") # {} =>
               /\ pc = "done"
               /\ result.op = "fetch_url_content" /\ result.raised
               /\ Cardinality(Printed("Error fetching URL")) = 1
               /\ StepsOf("ContentAnalyzer") = {}
               /\ StepsOf("analyze_all") = {}
               /\ StepsOf("display_results") = {}
               /\ Printed("Content Analysis Results") = {}
               /\ text = <<>> /\ sentences = <<>> /\ words = <<>>
        /\ StepsWith("fetch_url_content", "ok") # {} => content # <<>>

\* a page that is HTML and answers 200 but holds only whitespace: the run
\* has ended after the one fetch
C17_Witness ==
    /\ BasicUrlMode
    /\ pc = "done"
    /\ result.op = "fetch_url_content"
    /\ result.raised
    /\ result.arg.exception = "none"
    /\ result.arg.status = 200
    /\ result.arg.content_type \in HtmlTypes
    /\ result.arg.body # <<>>
    /\ Cardinality(StepsOf("fetch_url_content")) = 1

\* the steps of the --auto-tag mode, in their order
StepOrder == <<"is_url", "AutoTagger", "fetch_url_content", "generate_tags",
               "analyze_all", "display_results", "save_results_json">>

\* the steps taken so far, in the order they were taken
StepsTaken == SelectSeq(trace, LAMBDA e : \E k \in 1..Len(StepOrder) : e.step = StepOrder[k])

ErrorMessages == {"Error in auto-tagging", "Error: Auto-tagging requires a valid URL",
                  "Error fetching URL", "Error: File not found", "Error reading file"}
ErrorsPrinted == SelectSeq(trace, LAMBDA e : e.step = "print" /\ e.outcome \in ErrorMessages)

\* the part of C18 that does not depend on the message: the order of the
\* steps, nothing after a failure, display and save only after fetch, tags
\* and analysis, no analysis after a failure of the tagger
AutoTagOrder ==
    /\ Len(StepsTaken) <= Len(StepOrder)
    /\ \A k \in 1..Len(StepsTaken) : StepsTaken[k].step = StepOrder[k]
    /\ \A k \in 1..Len(StepsTaken) :
           StepsTaken[k].outcome = "failed" =>
               /\ k = Len(StepsTaken)
               /\ pc = "done"
               /\ trace[Len(trace)].step = "print"
    /\ (Printed("Content Analysis Results") # {} \/ StepsOf("save_results_json") # {}) =>
           /\ StepsWith("fetch_url_content", "ok") # {}
           /\ StepsWith("generate_tags", "ok") # {}
           /\ StepsWith("analyze_all", "ok") # {}
    /\ StepsWith("save_results_json", "ok") # {} =>
           StepsWith("display_results", "ok") # {}
    /\ StepsWith("generate_tags", "failed") # {} =>
           /\ StepsOf("ContentAnalyzer") = {}
           /\ StepsOf("analyze_all") = {}
           /\ Printed("Content Analysis Results") = {}
           /\ text = <<>> /\ sentences = <<>> /\ words = <<>>
           /\ result.op = "generate_tags"

\* C18 as stated: in --auto-tag mode the steps run in the order URL
\* validation, AutoTagger, fetch, generate_tags, analyze_all, display, save;
\* a failure at any step ends the run with one 'Error in auto-tagging'
\* message and no later step; results are displayed and saved only after
\* fetch, tags and analysis succeeded; after a failure of the tagger the
\* text is not analysed.
C18_FailFast ==
    AutoTagMode =>
        /\ AutoTagOrder
        /\ (\E k \in 1..Len(StepsTaken) : StepsTaken[k].outcome = "failed") =>
               ErrorsPrinted = <<Message("Error in auto-tagging")>>

\* C18 amended: as stated, except that the failure of the URL validation
\* ends the run with the one message 'Error: Auto-tagging requires a valid
\* URL' and only a failure of a later step with the one message 'Error in
\* auto-tagging'; a run without failure prints no error message.
C18_FailFastAfterValidation ==
    AutoTagMode =>
        /\ AutoTagOrder
        /\ ErrorsPrinted =
               IF StepsWith("is_url", "failed") # {}
               THEN <<Message("Error: Auto-tagging requires a valid URL")>>
               ELSE IF \E k \in 1..Len(StepsTaken) : StepsTaken[k].outcome = "failed"
                    THEN <<Message("Error in auto-tagging")>>
                    ELSE <<>>

\* the page was fetched, the tagger failed, the run is over
C18_Witness ==
    /\ AutoTagMode
    /\ pc = "done"
    /\ StepsWith("fetch_url_content", "ok") # {}
    /\ StepsWith("generate_tags", "failed") # {}
    /\ content # <<>>
    /\ trace[Len(trace)] = Message("Error in auto-tagging")

\* the element is a dict whose confidence is at least 0.5
Passing(item) ==
    /\ item.kind = "dict"
    /\ "confidence" \in item.keys
    /\ item.conf_type \in {"number", "bool"}
    /\ item.confidence >= 50

\* C19: for every parsed answer of the model generate_tags returns one entry
\* per category key; each list holds at most 5 elements, the dicts with a
\* confidence of at least 0.5 in their order (an element without confidence
\* is dropped); a value that is no list gives the empty list; an answer that
\* is no JSON and a failed call raise.
C19_TagsFiltered ==
    result.op = "generate_tags" =>
        /\ (result.arg.prompt /\ result.arg.transport /\ result.arg.valid) =>
               /\ ~result.raised
               /\ DOMAIN result.value = DOMAIN result.arg.members
               /\ \A c \in DOMAIN result.arg.members :
                      LET passing == SelectSeq(result.arg.members[c].items, Passing)
                      IN  /\ Len(result.value[c]) <= 5
                          /\ result.value[c] =
                                 SubSeq(passing, 1, Min2(5, Len(passing)))
        /\ (result.arg.prompt /\ (~result.arg.transport \/ ~result.arg.valid)) =>
               result.raised

====
